---- MODULE Spec2Model ----
(***************************************************************************)
(* Satellite-imagery dashboard: the dataset registry, the cloud mask, the  *)
(* yearly compositor and index evaluator of app.py, and the request        *)
(* handlers (main) of the imagery page app.py and of pages/graph.py.       *)
(***************************************************************************)
EXTENDS Integers, Sequences, FiniteSets, TLC

VARIABLES
    \* ---- mask_clouds applied to one image -------------------------------
    m_image,      \* the image handed to mask_clouds
    m_dataset,    \* the dataset name handed to mask_clouds
    m_out,        \* what mask_clouds produced: [status, image]
    \* ---- get_filtered_images / add_rgb_layer_to_map / calc_index --------
    p_sat,        \* satellite argument
    p_scenes,     \* the remote collection datasets[satellite]['collection']
    p_year,       \* year argument of the last pipeline call
    p_clip,       \* clip argument of the last pipeline call
    p_out,        \* what the last pipeline call produced
    \* ---- one run of main() of a page ------------------------------------
    page,         \* "app" (imagery page) or "graph" (pages/graph.py)
    pc,           \* position of the running script
    long, lat,    \* the two number inputs
    upload,       \* what the file uploader holds
    sat, start_year, end_year, index_name, graph_data, check_index, clip,
    coordinates,  \* local variable coordinates
    gdf,          \* local variable gdf ("unbound" until assigned)
    roi,          \* local variable roi
    region,       \* local variable region of pages/graph.py
    errors,       \* messages shown with st.error, in order
    exc,          \* unhandled exception that ended the run, or "none"
    calls,        \* calls of the compute pipeline, in order
    years,        \* plot_index_over_time: the list years
    index_values, \* plot_index_over_time: values appended so far, per year
    df            \* plot_index_over_time: the data frame returned

mask_vars == <<m_image, m_dataset, m_out>>
pipe_vars == <<p_sat, p_scenes, p_year, p_clip, p_out>>
page_vars == <<page, pc, long, lat, upload, sat, start_year, end_year,
               index_name, graph_data, check_index, clip, coordinates, gdf,
               roi, region, errors, exc, calls, years,
               index_values, df>>
vars == <<mask_vars, pipe_vars, page_vars>>

----------------------------------------------------------------------------
(* Bounds of the model *)

\* quality-band values 0..MaxQ are enumerated for mask_clouds
MaxQ == 70
\* the largest remote collection handed to get_filtered_images
MaxScenes == 2
\* the year inputs range over the first MaxSpan+1 years of a dataset
MaxSpan == 2

----------------------------------------------------------------------------
(* Integer bit operations of Python / Earth Engine *)

RECURSIVE bitwiseAnd(_, _)
bitwiseAnd(a, b) ==
    IF a = 0 \/ b = 0 THEN 0
    ELSE (a % 2) * (b % 2) + 2 * bitwiseAnd(a \div 2, b \div 2)

RECURSIVE bitwiseOr(_, _)
bitwiseOr(a, b) ==
    IF a = 0 THEN b
    ELSE IF b = 0 THEN a
    ELSE (IF a % 2 = 1 \/ b % 2 = 1 THEN 1 ELSE 0)
         + 2 * bitwiseOr(a \div 2, b \div 2)

ShiftLeft(a, k) == a * 2^k

----------------------------------------------------------------------------
(* Registries *)

SatNames == <<"Sentinel-2", "Landsat-5", "Landsat-7", "Landsat-8", "MODIS">>

datasets ==
    [s \in {SatNames[i] : i \in 1..Len(SatNames)} |->
       CASE s = "Sentinel-2" ->
              [collection |-> "COPERNICUS/S2_SR_HARMONIZED",
               bands |-> <<"B4", "B3", "B2", "B8", "B5">>,
               year_range |-> <<2019, 2023>>]
         [] s = "Landsat-5" ->
              [collection |-> "LANDSAT/LT05/C02/T1_L2",
               cloud_mask_band |-> "QA_PIXEL",
               cloud_mask_value |->
                   bitwiseOr(ShiftLeft(1, 1),
                   bitwiseOr(ShiftLeft(1, 3), ShiftLeft(1, 4))),
               bands |-> <<"SR_B3", "SR_B2", "SR_B1", "SR_B4", "SR_B3">>,
               year_range |-> <<1985, 2011>>]
         [] s = "Landsat-7" ->
              [collection |-> "LANDSAT/LE07/C02/T1_L2",
               cloud_mask_band |-> "QA_PIXEL",
               cloud_mask_value |->
                   bitwiseOr(ShiftLeft(1, 1),
                   bitwiseOr(ShiftLeft(1, 3),
                   bitwiseOr(ShiftLeft(1, 4), ShiftLeft(1, 5)))),
               bands |-> <<"SR_B3", "SR_B2", "SR_B1", "SR_B4", "SR_B3">>,
               year_range |-> <<2000, 2023>>]
         [] s = "Landsat-8" ->
              [collection |-> "LANDSAT/LC08/C02/T1_L2",
               cloud_mask_band |-> "QA_PIXEL",
               cloud_mask_value |->
                   bitwiseOr(ShiftLeft(1, 1),
                   bitwiseOr(ShiftLeft(1, 2),
                   bitwiseOr(ShiftLeft(1, 3),
                   bitwiseOr(ShiftLeft(1, 4), ShiftLeft(1, 5))))),
               bands |-> <<"SR_B4", "SR_B3", "SR_B2", "SR_B5", "SR_B4">>,
               year_range |-> <<2014, 2023>>]
         [] s = "MODIS" ->
              [collection |-> "MODIS/006/MOD09GA",
               cloud_mask_band |-> "state_1km",
               cloud_mask_value |->
                   bitwiseOr(ShiftLeft(1, 10), ShiftLeft(1, 11)),
               bands |-> <<"sur_refl_b01", "sur_refl_b04", "sur_refl_b03",
                           "sur_refl_b02", "sur_refl_b01">>,
               year_range |-> <<2001, 2022>>]]

indexes ==
    [n \in {"NDVI", "NDWI"} |->
       CASE n = "NDVI" -> "(NIR - RED) / (NIR + RED)"
         [] n = "NDWI" -> "(GREEN - NIR) / (GREEN + NIR)"]

----------------------------------------------------------------------------
(* Images.  An image is one pixel of one scene: the value q of its quality *)
(* band, the reflectance v of its bands, whether the pixel is valid, and   *)
(* the scene properties the filters read.                                  *)

NoData == 0 - 1

Image(q, v, cloudy, snow, date, inBounds) ==
    [q |-> q, v |-> v, valid |-> TRUE,
     cloudy |-> cloudy, snow |-> snow, date |-> date, inBounds |-> inBounds]

NoImage == [q |-> 0, v |-> NoData, valid |-> FALSE,
            cloudy |-> 0, snow |-> 0, date |-> <<0, 0, 0>>, inBounds |-> FALSE]

\* mask_clouds with the mask test turned into "all flagged bits set"
mask_clouds_all_bits(image, dataset) ==
    IF "cloud_mask_band" \notin DOMAIN datasets[dataset]
       \/ "cloud_mask_value" \notin DOMAIN datasets[dataset]
    THEN [status |-> "KeyError", image |-> NoImage]
    ELSE LET cloud_mask_value == datasets[dataset].cloud_mask_value
             cloud_mask ==
                 (bitwiseAnd(image.q, cloud_mask_value) # cloud_mask_value)
         IN  [status |-> "ok",
              image |-> [image EXCEPT !.valid = @ /\ cloud_mask]]

\* mask_clouds: KeyError when the dataset entry has no cloud mask keys
mask_clouds(image, dataset) ==
    IF "cloud_mask_band" \notin DOMAIN datasets[dataset]
       \/ "cloud_mask_value" \notin DOMAIN datasets[dataset]
    THEN [status |-> "KeyError", image |-> NoImage]
    ELSE LET cloud_mask_value == datasets[dataset].cloud_mask_value
             cloud_mask == (bitwiseAnd(image.q, cloud_mask_value) = 0)
         IN  [status |-> "ok",
              image |-> [image EXCEPT !.valid = @ /\ cloud_mask]]

----------------------------------------------------------------------------
(* Temporal compositor *)

\* dates are <<year, month, day>>, compared as Earth Engine compares times
DateBefore(a, b) ==
    \/ a[1] < b[1]
    \/ a[1] = b[1] /\ a[2] < b[2]
    \/ a[1] = b[1] /\ a[2] = b[2] /\ a[3] < b[3]

\* filterBounds(region): scenes whose footprint intersects the region
filterBounds(collection) ==
    LET Test(im) == im.inBounds IN SelectSeq(collection, Test)

\* filterDate(start, end): start inclusive, end exclusive
filterDate(collection, start, end) ==
    LET Test(im) == ~DateBefore(im.date, start) /\ DateBefore(im.date, end)
    IN  SelectSeq(collection, Test)

\* the quality filter with ee.Filter.lte in place of ee.Filter.lt
filterQuality_lte(collection) ==
    LET Cloudy(im) == im.cloudy <= 20
        Snow(im) == im.snow <= 20
    IN  SelectSeq(SelectSeq(collection, Cloudy), Snow)

\* ee.Filter.lt(property, 20) on the two scene percentages
filterQuality(collection) ==
    LET Cloudy(im) == im.cloudy < 20
        Snow(im) == im.snow < 20
    IN  SelectSeq(SelectSeq(collection, Cloudy), Snow)

\* get_filtered_images without the map of mask_clouds over the scenes
get_filtered_images_unmasked(satellite, year, scenes) ==
    LET filtered_images ==
            filterDate(filterBounds(scenes), <<year, 1, 1>>, <<year, 12, 31>>)
    IN  IF satellite = "Sentinel-2"
        THEN filterQuality(filtered_images)
        ELSE filtered_images

get_filtered_images(satellite, year, scenes) ==
    LET filtered_images ==
            filterDate(filterBounds(scenes), <<year, 1, 1>>, <<year, 12, 31>>)
    IN  IF satellite = "Sentinel-2"
        THEN filterQuality(filtered_images)
        ELSE [i \in 1..Len(filtered_images) |->
                 mask_clouds(filtered_images[i], satellite).image]

RECURSIVE Insert(_, _)
Insert(x, sorted) ==
    IF sorted = <<>> THEN <<x>>
    ELSE IF x <= Head(sorted) THEN <<x>> \o sorted
    ELSE <<Head(sorted)>> \o Insert(x, Tail(sorted))

RECURSIVE SortValues(_)
SortValues(s) == IF s = <<>> THEN <<>> ELSE Insert(Head(s), SortValues(Tail(s)))

\* the values of the valid pixels of a collection
ValidValues(images) ==
    LET Valid(im) == im.valid
        kept == SelectSeq(images, Valid)
    IN  [i \in 1..Len(kept) |-> kept[i].v]

\* ImageCollection.median(): per-pixel median of the unmasked values, the
\* mean of the two middle values for an even count, masked when none
median(images) ==
    LET vals == SortValues(ValidValues(images))
        n == Len(vals)
    IN  IF n = 0 THEN [v |-> NoData, valid |-> FALSE, clipped |-> FALSE]
        ELSE [v |-> IF n % 2 = 1 THEN vals[(n + 1) \div 2]
                    ELSE (vals[n \div 2] + vals[n \div 2 + 1]) \div 2,
              valid |-> TRUE, clipped |-> FALSE]

clip_image(image) == [image EXCEPT !.clipped = TRUE]

NoBindings == [RED |-> "", BLUE |-> "", GREEN |-> "", NIR |-> "",
               RED_EDGE |-> "", L |-> 0]

NoOut == [fn |-> "none", filtered |-> <<>>,
          image |-> [v |-> NoData, valid |-> FALSE, clipped |-> FALSE],
          bands |-> <<>>, bindings |-> NoBindings, expression |-> "",
          name |-> ""]

rgb_bands(satellite) == [i \in 1..3 |-> datasets[satellite].bands[i]]

add_rgb_layer_to_map(satellite, year, scenes, clipArg) ==
    LET filtered_images == get_filtered_images(satellite, year, scenes)
        median_image == median(filtered_images)
    IN  [fn |-> "add_rgb_layer_to_map",
         filtered |-> filtered_images,
         image |-> IF clipArg THEN clip_image(median_image) ELSE median_image,
         bands |-> rgb_bands(satellite),
         bindings |-> NoBindings, expression |-> "",
         name |-> "RGB"]

\* the role bindings of calc_index; bands[i] of the source is bands[i+1] here
band_bindings(satellite) ==
    [RED |-> datasets[satellite].bands[1],
     BLUE |-> datasets[satellite].bands[2],
     GREEN |-> datasets[satellite].bands[3],
     NIR |-> datasets[satellite].bands[4],
     RED_EDGE |-> datasets[satellite].bands[5],
     L |-> 5]

calc_index(satellite, index, year, scenes, clipArg) ==
    LET filtered_images == get_filtered_images(satellite, year, scenes)
        image == median(filtered_images)
    IN  [fn |-> "calc_index",
         filtered |-> filtered_images,
         image |-> IF clipArg THEN clip_image(image) ELSE image,
         bands |-> <<>>,
         bindings |-> band_bindings(satellite),
         expression |-> indexes[index],
         name |-> index]

----------------------------------------------------------------------------
(* Input sets *)

Sats == {SatNames[i] : i \in 1..Len(SatNames)}

\* quality values: every value up to MaxQ, and values with MODIS bits 10, 11
QVals == (0..MaxQ) \cup {1024, 2048, 3072, 4098}

Pcts == {19, 20, 21}
Vals == {2, 4}
\* the year of the scenes, and the years asked of the compositor
SceneYears == {2020}
PYears == {2020, 2021}
Dates == UNION {{<<y, 1, 1>>, <<y, 12, 31>>} : y \in SceneYears}

\* scenes of a collection: Sentinel-2 scenes carry the two percentages,
\* the others a quality band
SceneSet(satellite) ==
    IF satellite = "Sentinel-2"
    THEN {Image(0, v, c, sn, d, b) :
             v \in Vals, c \in Pcts, sn \in Pcts, d \in Dates, b \in BOOLEAN}
    ELSE {Image(q, v, 0, 0, d, b) :
             q \in {0, 2, 1024}, v \in Vals, d \in Dates, b \in BOOLEAN}

SeqsUpTo(S, n) == UNION {[1..k -> S] : k \in 0..n}

\* the state of the parts a specification does not run
MaskIdle ==
    /\ m_image = NoImage
    /\ m_dataset = "Sentinel-2"
    /\ m_out = [status |-> "none", image |-> NoImage]

PipeIdle ==
    /\ p_sat = "Sentinel-2"
    /\ p_scenes = <<>>
    /\ p_year = 0
    /\ p_clip = FALSE
    /\ p_out = NoOut

PageIdle ==
    /\ page = "app"
    /\ pc = "idle"
    /\ long = 0 /\ lat = 0
    /\ upload = "none"
    /\ sat = "Sentinel-2"
    /\ start_year = 0 /\ end_year = 0
    /\ index_name = "NDVI"
    /\ graph_data = <<>>
    /\ check_index = FALSE /\ clip = FALSE
    /\ coordinates = [kind |-> "None", long |-> 0, lat |-> 0]
    /\ gdf = "unbound"
    /\ roi = [kind |-> "None", long |-> 0, lat |-> 0]
    /\ region = [kind |-> "None", long |-> 0, lat |-> 0]
    /\ errors = <<>>
    /\ exc = "none"
    /\ calls = <<>>
    /\ years = <<>>
    /\ index_values = <<>>
    /\ df = <<>>

----------------------------------------------------------------------------
(* mask_clouds applied to an image *)

InitMask ==
    /\ m_image \in {[Image(q, 2, 0, 0, d, TRUE) EXCEPT !.valid = ok] :
                        q \in QVals, d \in Dates, ok \in BOOLEAN}
    /\ m_dataset \in Sats
    /\ m_out = [status |-> "none", image |-> NoImage]
    /\ PipeIdle
    /\ PageIdle

ApplyMaskClouds ==
    /\ m_out.status = "none"
    /\ m_out' = mask_clouds(m_image, m_dataset)
    /\ UNCHANGED <<m_image, m_dataset, pipe_vars, page_vars>>

NextMask == ApplyMaskClouds

SpecMask == InitMask /\ [][NextMask]_vars

----------------------------------------------------------------------------
(* The compositor called on a remote collection *)

InitPipeline ==
    /\ p_sat \in Sats
    /\ p_scenes \in SeqsUpTo(SceneSet(p_sat), MaxScenes)
    /\ p_year = 0
    /\ p_clip = FALSE
    /\ p_out = NoOut
    /\ MaskIdle
    /\ PageIdle

AddRgbLayer ==
    /\ p_out.fn = "none"
    /\ \E c \in BOOLEAN, y \in PYears :
          /\ p_year' = y
          /\ p_clip' = c
          /\ p_out' = add_rgb_layer_to_map(p_sat, y, p_scenes, c)
    /\ UNCHANGED <<p_sat, p_scenes, mask_vars, page_vars>>

CalcIndex ==
    /\ p_out.fn = "none"
    /\ \E c \in BOOLEAN, y \in PYears, index \in DOMAIN indexes :
          /\ p_year' = y
          /\ p_clip' = c
          /\ p_out' = calc_index(p_sat, index, y, p_scenes, c)
    /\ UNCHANGED <<p_sat, p_scenes, mask_vars, page_vars>>

NextPipeline == AddRgbLayer \/ CalcIndex

SpecPipeline == InitPipeline /\ [][NextPipeline]_vars

----------------------------------------------------------------------------
(* One run of main() of the imagery page (app.py) or of pages/graph.py *)

ShpNotFound == "Shapefile (.shp) not found in the uploaded zip file."
EndYearMsg == "End year should be greater ar equal to start year."

None == [kind |-> "None", long |-> 0, lat |-> 0]
Point(lo, la) == [kind |-> "Point", long |-> lo, lat |-> la]
FeatureCollection == [kind |-> "FeatureCollection", long |-> 0, lat |-> 0]

\* values of the two coordinate inputs (0 is the widget's default)
Coords == {0, 5}
\* what the uploader holds: nothing, a zip without .shp, a zip whose
\* shapefile has no features, a zip with a shapefile with features
Uploads == {"none", "no_shp", "empty", "ok"}
\* selections of the "Data" multiselect
GraphData == {<<>>, <<"Mean">>, <<"Max", "Mean", "Min">>}

Min2(a, b) == IF a <= b THEN a ELSE b

\* number_input(min_value=year_range[0], max_value=year_range[1])
YearChoices(s) ==
    datasets[s].year_range[1] ..
        Min2(datasets[s].year_range[2], datasets[s].year_range[1] + MaxSpan)

NoneVal == 0 - 99
NoStats == [max |-> NoneVal, mean |-> NoneVal, min |-> NoneVal,
            stdDev |-> NoneVal]
\* results of reduceRegion(...).getInfo(): numbers, or None for every key
\* when no pixel of the region is valid
StatsSet == {[max |-> 1, mean |-> 0, min |-> 0 - 1, stdDev |-> 1], NoStats}

\* str.lower() on the names of the multiselect
lower(data) ==
    CASE data = "Max" -> "max" [] data = "Mean" -> "mean"
      [] data = "Min" -> "min"

\* the inputs of a run of pages/graph.py with satellite s selected
GraphRequests(s) ==
    {[page |-> "graph", long |-> lo, lat |-> la, upload |-> up, sat |-> s,
      start_year |-> y0, end_year |-> y1, index_name |-> ix,
      graph_data |-> gd, check_index |-> FALSE, clip |-> FALSE] :
        lo \in Coords, la \in Coords, up \in Uploads,
        y0 \in YearChoices(s), y1 \in YearChoices(s),
        ix \in DOMAIN indexes, gd \in GraphData}

\* the inputs of a run of app.py; the index is selected only under "Add Index"
AppRequests(s, ci) ==
    {[page |-> "app", long |-> lo, lat |-> la, upload |-> up, sat |-> s,
      start_year |-> y0, end_year |-> y0, index_name |-> ix,
      graph_data |-> <<>>, check_index |-> ci, clip |-> cl] :
        lo \in Coords, la \in Coords, up \in Uploads,
        y0 \in YearChoices(s),
        ix \in IF ci THEN DOMAIN indexes ELSE {"NDVI"},
        cl \in BOOLEAN}

Requests ==
    UNION {GraphRequests(s) \cup AppRequests(s, TRUE) \cup AppRequests(s, FALSE)
              : s \in Sats}

InitPage ==
    /\ \E r \in Requests :
          /\ page = r.page
          /\ long = r.long /\ lat = r.lat
          /\ upload = r.upload
          /\ sat = r.sat
          /\ start_year = r.start_year /\ end_year = r.end_year
          /\ index_name = r.index_name
          /\ graph_data = r.graph_data
          /\ check_index = r.check_index /\ clip = r.clip
    /\ pc = "point"
    /\ coordinates = None /\ roi = None /\ region = None
    /\ gdf = "unbound"
    /\ errors = <<>> /\ exc = "none" /\ calls = <<>>
    /\ years = <<>> /\ index_values = <<>> /\ df = <<>>
    /\ MaskIdle
    /\ PipeIdle

inputs == <<page, long, lat, upload, sat, start_year, end_year, index_name,
            graph_data, check_index, clip>>

\* app.py 180, graph.py 64: the test that makes the point a region
point_is_set(lo, la) == lo # 0 /\ la # 0

SetPoint ==
    /\ pc = "point"
    /\ coordinates' = IF point_is_set(long, lat) THEN Point(long, lat)
                      ELSE None
    /\ pc' = "upload"
    /\ UNCHANGED <<inputs, gdf, roi, region, errors, exc, calls, years,
                   index_values, df, mask_vars, pipe_vars>>

\* the upload block: what it leaves in gdf, roi, the error list, and the
\* exception raised by reading gdf.empty when gdf was never assigned
upload_block(up) ==
    CASE up = "none" ->
           [gdf |-> "unbound", roi |-> None, errors |-> <<>>, exc |-> "none"]
      [] up = "no_shp" ->
           [gdf |-> "unbound", roi |-> None, errors |-> <<ShpNotFound>>,
            exc |-> "UnboundLocalError"]
      [] up = "empty" ->
           [gdf |-> "empty", roi |-> None, errors |-> <<>>, exc |-> "none"]
      [] up = "ok" ->
           [gdf |-> "features", roi |-> FeatureCollection, errors |-> <<>>,
            exc |-> "none"]

HandleUpload ==
    /\ pc = "upload"
    /\ LET r == upload_block(upload) IN
          /\ gdf' = r.gdf
          /\ roi' = r.roi
          /\ errors' = errors \o r.errors
          /\ exc' = r.exc
          /\ pc' = IF r.exc = "none" THEN "select" ELSE "crashed"
    /\ UNCHANGED <<inputs, coordinates, region, calls, years, index_values,
                   df, mask_vars, pipe_vars>>

\* graph.py 112-117
select_region(coords, r) ==
    IF coords # None /\ r = None THEN coords
    ELSE IF r # None THEN r
    ELSE None

\* range(start_year, end_year): the last year left out
year_list_exclusive(y0, y1) ==
    [i \in 1..(IF y1 > y0 THEN y1 - y0 ELSE 0) |-> y0 + i - 1]

\* range(start_year, end_year + 1)
year_list(y0, y1) == [i \in 1..(IF y1 + 1 > y0 THEN y1 + 1 - y0 ELSE 0) |->
                         y0 + i - 1]

\* the range test left out
range_ok_always(y0, y1) == TRUE

\* graph.py 119: the range test
range_ok(y0, y1) == y0 <= y1

SelectAndCheck ==
    /\ pc = "select" /\ page = "graph"
    /\ region' = select_region(coordinates, roi)
    /\ IF range_ok(start_year, end_year)
       THEN /\ errors' = errors
            /\ IF region' # None
               THEN /\ years' = year_list(start_year, end_year)
                    /\ pc' = "loop"
               ELSE /\ years' = years
                    /\ pc' = "done"
       ELSE /\ errors' = Append(errors, EndYearMsg)
            /\ years' = years
            /\ pc' = "done"
    /\ UNCHANGED <<inputs, coordinates, gdf, roi, exc, calls, index_values,
                   df, mask_vars, pipe_vars>>

Call(fn, s, ix, y, reg, cl, st) ==
    [fn |-> fn, satellite |-> s, index_name |-> ix, year |-> y,
     region |-> reg, clip |-> cl, stats |-> st]

\* one iteration of the loop of plot_index_over_time
PlotYear ==
    /\ pc = "loop"
    /\ Len(index_values) < Len(years)
    /\ LET year == years[Len(index_values) + 1] IN
       \E stats \in StatsSet :
          /\ calls' = Append(calls, Call("calc_index", sat, index_name, year,
                                         region, "False", stats))
          /\ index_values' =
                Append(index_values,
                       [i \in 1..Len(graph_data) |->
                           stats[lower(graph_data[i])]])
    /\ UNCHANGED <<inputs, pc, coordinates, gdf, roi, region, errors, exc,
                   years, df, mask_vars, pipe_vars>>

\* the data frame is assembled and shown once the loop is over
PlotDone ==
    /\ pc = "loop"
    /\ Len(index_values) = Len(years)
    /\ df' = [i \in 1..Len(years) |->
                 [Year |-> years[i], values |-> index_values[i]]]
    /\ pc' = "done"
    /\ UNCHANGED <<inputs, coordinates, gdf, roi, region, errors, exc,
                   calls, years, index_values, mask_vars, pipe_vars>>

\* app.py 253-287
AppRender ==
    /\ pc = "select" /\ page = "app"
    /\ \E stats \in StatsSet :
          calls' = calls
             \o (IF coordinates # None /\ roi = None
                 THEN <<Call("add_rgb_layer_to_map", sat, "", start_year,
                             coordinates, "None", NoStats)>>
                 ELSE <<>>)
             \o (IF roi # None
                 THEN <<Call("add_rgb_layer_to_map", sat, "", start_year,
                             roi, IF clip THEN "True" ELSE "False",
                             NoStats)>>
                      \o (IF check_index
                          THEN <<Call("calc_index", sat, index_name,
                                      start_year, roi,
                                      IF clip THEN "True" ELSE "False",
                                      stats)>>
                          ELSE <<>>)
                 ELSE <<>>)
    /\ pc' = "done"
    /\ UNCHANGED <<inputs, coordinates, gdf, roi, region, errors, exc,
                   years, index_values, df, mask_vars, pipe_vars>>

Init == InitPage

Next ==
    \/ SetPoint
    \/ HandleUpload
    \/ SelectAndCheck
    \/ PlotYear
    \/ PlotDone
    \/ AppRender

Spec == Init /\ [][Next]_vars

----------------------------------------------------------------------------
(* Properties *)

\* the error kind a message shown with st.error stands for
ErrorKind(msg) ==
    CASE msg = EndYearMsg -> "InvalidRange"
      [] msg = ShpNotFound -> "MalformedUpload"
      [] OTHER -> "Unknown"

Reported(kind) == \E i \in 1..Len(errors) : ErrorKind(errors[i]) = kind

Bit(n, b) == (n \div 2^b) % 2

\* q and mask have a set bit in common
Overlap(q, mask) == \E b \in 0..12 : Bit(q, b) = 1 /\ Bit(mask, b) = 1

HasCloudMask(s) == "cloud_mask_value" \in DOMAIN datasets[s]

\* C1: a run of the graph page with start year greater than end year issues
\* no calc_index call at any point, and when it has run through the range
\* test it has reported the InvalidRange message and produced no series.
C1_InvalidRangeNoCalls ==
    (page = "graph" /\ start_year > end_year) =>
        /\ calls = <<>>
        /\ years = <<>> /\ index_values = <<>> /\ df = <<>>
        /\ pc # "loop"
        /\ (pc = "done" => Reported("InvalidRange"))

C1_Witness ==
    /\ page = "graph" /\ pc = "done"
    /\ start_year > end_year
    /\ region # None
    /\ Reported("InvalidRange")
    /\ calls = <<>>

\* C2: for start year <= end year the series returned by
\* plot_index_over_time has end - start + 1 rows, one per year of the
\* inclusive range, strictly ascending; row i holds the requested fields of
\* the statistics of the i-th calc_index call, which is the one call for
\* year start + i - 1, made with clip False, and calls are made in
\* ascending order of year.
C2_SeriesPerYear ==
    /\ (page = "graph" /\ pc \in {"loop", "done"}) =>
          /\ Len(calls) = Len(index_values)
          /\ \A i \in 1..Len(calls) :
                /\ calls[i].fn = "calc_index"
                /\ calls[i].year = start_year + i - 1
                /\ calls[i].clip = "False"
          /\ \A i, j \in 1..Len(calls) :
                i < j => calls[i].year < calls[j].year
    /\ (page = "graph" /\ pc = "done" /\ start_year <= end_year
           /\ region # None) =>
          /\ Len(df) = end_year - start_year + 1
          /\ Len(calls) = Len(df)
          /\ \A i \in 1..Len(df) :
                /\ df[i].Year = start_year + i - 1
                /\ df[i].Year = calls[i].year
                /\ Len(df[i].values) = Len(graph_data)
                /\ \A k \in 1..Len(graph_data) :
                      df[i].values[k] = calls[i].stats[lower(graph_data[k])]
          /\ \A i, j \in 1..Len(df) : i < j => df[i].Year < df[j].Year

C2_Witness ==
    /\ page = "graph" /\ pc = "done"
    /\ start_year < end_year
    /\ Len(df) = end_year - start_year + 1
    /\ Len(graph_data) = 3
    /\ df[1].values # df[2].values

\* C3: for a dataset with a cloud mask, mask_clouds leaves a valid pixel
\* valid exactly when its quality value q and the dataset's bitmask have no
\* set bit in common, and changes nothing else; the Landsat-7 bitmask is
\* 58 (bits 1, 3, 4, 5), so q = 2 is masked out and q = 0 is kept.
C3_MaskIffNoOverlap ==
    /\ datasets["Landsat-7"].cloud_mask_value = 58
    /\ \A b \in 0..12 :
          Bit(datasets["Landsat-7"].cloud_mask_value, b) = 1
             <=> b \in {1, 3, 4, 5}
    /\ (m_out.status # "none" /\ HasCloudMask(m_dataset)) =>
          /\ m_out.status = "ok"
          /\ m_out.image.valid =
                (m_image.valid
                   /\ ~Overlap(m_image.q, datasets[m_dataset].cloud_mask_value))
          /\ m_out.image = [m_image EXCEPT !.valid = m_out.image.valid]
          /\ (m_dataset = "Landsat-7" /\ m_image.q = 2) => ~m_out.image.valid
          /\ (m_image.q = 0 /\ m_image.valid) => m_out.image.valid

C3_Witness ==
    /\ m_out.status = "ok"
    /\ m_dataset = "Landsat-7"
    /\ m_image.valid /\ m_image.q = 2
    /\ ~m_out.image.valid

\* C4: mask_clouds applied to an image of a dataset without a cloud mask
\* (Sentinel-2) returns the image unchanged, with no error.
C4_NoMaskUnchanged ==
    (m_out.status # "none" /\ ~HasCloudMask(m_dataset)) =>
        /\ m_out.status = "ok"
        /\ m_out.image = m_image

\* C5: once a run has handled an upload that has no .shp member or whose
\* shapefile has no features, MalformedUpload is reported, no exception is
\* raised, and the compute pipeline is not called.
C5_MalformedUploadReported ==
    (upload \in {"no_shp", "empty"} /\ pc \notin {"point", "upload"}) =>
        /\ Reported("MalformedUpload")
        /\ exc = "none"
        /\ calls = <<>>

\* C6: a run with neither a point nor an upload ends with MissingRegion
\* reported and without a call of the compute pipeline.
C6_MissingRegionReported ==
    (long = 0 /\ lat = 0 /\ upload = "none" /\ pc = "done") =>
        /\ Reported("MissingRegion")
        /\ calls = <<>>

\* C7: on both pages the point is unset exactly when both coordinates are
\* zero; any other point becomes the point region.
C7_PointUnsetOnlyAtOrigin ==
    pc # "point" =>
        /\ (coordinates = None) <=> (long = 0 /\ lat = 0)
        /\ (coordinates # None) => coordinates = Point(long, lat)

\* a scene of the collection that passes filterBounds and filterDate
InYearAndBounds(im) ==
    /\ im.inBounds
    /\ im.date[1] = p_year
    /\ ~(im.date[2] = 12 /\ im.date[3] = 31)

\* C8: for a dataset with a cloud mask, the collection reduced by median in
\* add_rgb_layer_to_map and calc_index holds every scene of the filtered
\* collection with the mask already applied, and the composite is the
\* median of the unmasked values alone, itself not masked afterwards.
C8_MaskBeforeMedian ==
    (p_out.fn # "none" /\ HasCloudMask(p_sat)) =>
        LET cand == SelectSeq(p_scenes, InYearAndBounds)
            mask == datasets[p_sat].cloud_mask_value
            clear == {i \in 1..Len(cand) : ~Overlap(cand[i].q, mask)}
            below == {i \in clear : cand[i].v < p_out.image.v}
            above == {i \in clear : cand[i].v > p_out.image.v}
        IN  /\ Len(p_out.filtered) = Len(cand)
            /\ \A i \in 1..Len(cand) :
                  /\ p_out.filtered[i].valid = (i \in clear)
                  /\ p_out.filtered[i].q = cand[i].q
                  /\ p_out.filtered[i].v = cand[i].v
            /\ p_out.image.valid = (clear # {})
            /\ clear # {} =>
                  /\ 2 * Cardinality(below) <= Cardinality(clear)
                  /\ 2 * Cardinality(above) <= Cardinality(clear)

C8_Witness ==
    /\ p_out.fn = "calc_index"
    /\ p_sat = "Landsat-7"
    /\ Len(p_out.filtered) = 2
    /\ ~p_out.filtered[1].valid /\ p_out.filtered[1].v = 4
    /\ p_out.filtered[2].valid /\ p_out.filtered[2].v = 2
    /\ p_out.image.valid /\ p_out.image.v = 2

\* C9 as stated: for Sentinel-2, get_filtered_images keeps a scene of the
\* year and region exactly when both percentages are at most 20.
C9_KeepsUpTo20 ==
    (p_out.fn # "none" /\ p_sat = "Sentinel-2") =>
        LET Keep(im) == InYearAndBounds(im) /\ im.cloudy <= 20 /\ im.snow <= 20
        IN  p_out.filtered = SelectSeq(p_scenes, Keep)

\* C9 amended: for Sentinel-2, get_filtered_images keeps a scene of the
\* year and region exactly when both percentages are below 20; a scene
\* with either percentage at 20 or above is discarded.
C9_KeepsBelow20 ==
    (p_out.fn # "none" /\ p_sat = "Sentinel-2") =>
        LET Keep(im) == InYearAndBounds(im) /\ im.cloudy < 20 /\ im.snow < 20
        IN  /\ p_out.filtered = SelectSeq(p_scenes, Keep)
            /\ \A i \in 1..Len(p_out.filtered) : p_out.filtered[i].valid

C9_Witness ==
    /\ p_out.fn # "none" /\ p_sat = "Sentinel-2"
    /\ Len(p_scenes) = 2
    /\ InYearAndBounds(p_scenes[1]) /\ InYearAndBounds(p_scenes[2])
    /\ p_scenes[1].cloudy = 20 /\ p_scenes[1].snow = 19
    /\ p_scenes[2].cloudy = 19 /\ p_scenes[2].snow = 19
    /\ p_out.filtered = <<p_scenes[2]>>

\* C10: the band calc_index binds to GREEN is the band add_rgb_layer_to_map
\* shows as the green (second) channel, and the band bound to BLUE is the
\* one shown as the blue (third) channel.
C10_GreenBlueAgree ==
    p_out.fn = "calc_index" =>
        /\ p_out.bindings.GREEN = rgb_bands(p_sat)[2]
        /\ p_out.bindings.BLUE = rgb_bands(p_sat)[3]

====
